---- MODULE Spec2Model ----
(***************************************************************************)
(* Foscam sensor platform (homeassistant/components/foscam/sensor.py).     *)
(*                                                                         *)
(* One HassFoscamData object polls the camera through a throttled          *)
(* coroutine; nine HassFoscamSensor entities delegate their async_update   *)
(* to it and derive their state from its data mapping on demand.           *)
(*                                                                         *)
(* Python values: a dict is a function, a str is a string, an optional     *)
(* value is a sequence of length 0 (None) or 1.  Time is counted in clock  *)
(* ticks, TicksPerMinute of them to the minute.                            *)
(***************************************************************************)
EXTENDS Integers, Sequences, FiniteSets, TLC

VARIABLES
    now,        \* the wall clock read by utcnow()
    throttle,   \* Throttle's time of the last executed call (None before it)
    data,       \* HassFoscamData.data
    pending,    \* get_dev_state jobs in the executor, by the time they started
    calls,      \* the camera client's record: start time of every get_dev_state
    log,        \* _LOGGER.error records
    done,       \* the polls that have returned, in the order they returned
    entities,   \* the HassFoscamSensor objects, by sensor type
    event       \* the last operation and what it returned

vars == <<now, throttle, data, pending, calls, log, done, entities, event>>

----------------------------------------------------------------------------
\* Bounds of the model.

\* The clock's resolution, and how often the camera fails in LiveSpec.
TicksPerMinute == 2
MaxFailures == 1

None == <<>>
Some(v) == <<v>>
EmptyDict == [k \in {} |-> ""]

\* The responses the camera can give: every mapping of some of PolledFields
\* to RawValues.
PolledFields == {"motionDetectAlarm", "sdFreeSpace"}
RawValues == {"1", "1024"}
Responses == UNION {[F -> RawValues] : F \in SUBSET PolledFields}

\* What comes with a code other than success: a whole mapping.
FailedResponses == {r \in Responses : \A f \in PolledFields : f \in DOMAIN r /\ r[f] = "1"}

----------------------------------------------------------------------------
\* libpyfoscam result codes.

FOSCAM_SUCCESS == 0
FOSCAM_ERROR_FORMAT == 0 - 1
FOSCAM_ERROR_AUTH == 0 - 2
FOSCAM_ERROR_CMD == 0 - 3
FOSCAM_ERROR_EXE == 0 - 4
FOSCAM_ERROR_TIMEOUT == 0 - 5
FOSCAM_ERROR_UNAVAILABLE == 0 - 8

\* What get_dev_state can return as its code: the seven above and a code the
\* module does not know.
RetCodes == {0 - 8, 0 - 7, 0 - 5, 0 - 4, 0 - 3, 0 - 2, 0 - 1, 0}

\* Mutant: the interval given in seconds, less than a clock tick.
SCAN_INTERVAL_InSeconds == 0 * TicksPerMinute

SCAN_INTERVAL == 1 * TicksPerMinute

\* The clock stops when three polls have had the time to start.
MaxTime == 2 * (SCAN_INTERVAL + 1)

FOSCAM_ALARM_MAPPING ==
    ("0" :> "Disabled") @@ ("1" :> "No alarm") @@ ("2" :> "Detect alarm")

FOSCAM_RECORD_MAPPING ==
    ("0" :> "Not in recording") @@ ("1" :> "Recording")

FOSCAM_SDCARD_MAPPING ==
    ("0" :> "No SD card") @@ ("1" :> "SD card ok") @@ ("2" :> "SD card read only")

FOSCAM_WIFI_MAPPING ==
    ("0" :> "No wifi connected") @@ ("1" :> "Connected")

FOSCAM_INFRALED_MAPPING ==
    ("0" :> "OFF") @@ ("1" :> "ON")

\* The second slot of a descriptor is a dict or None.
Dict(m) == [kind |-> "dict", map |-> m]
NoneSlot == [kind |-> "None", map |-> EmptyDict]

Descriptor(label, unit, icon) == [label |-> label, unit |-> unit, icon |-> icon]

SENSOR_TYPES ==
    ("motionDetectAlarm" :>
        Descriptor("Motion detect alarm", Dict(FOSCAM_ALARM_MAPPING), Some("mdi:walk")))
    @@ ("soundAlarm" :>
        Descriptor("Sound alarm", Dict(FOSCAM_ALARM_MAPPING), Some("mdi-speaker")))
    @@ ("record" :>
        Descriptor("Record", Dict(FOSCAM_RECORD_MAPPING), Some("mdi:record-rec")))
    @@ ("sdState" :>
        Descriptor("SD card state", Dict(FOSCAM_SDCARD_MAPPING), None))
    @@ ("sdFreeSpace" :>
        Descriptor("SD free space", NoneSlot, None))
    @@ ("sdTotalSpace" :>
        Descriptor("SD total space", NoneSlot, None))
    @@ ("isWifiConnected" :>
        Descriptor("Wifi connected", Dict(FOSCAM_WIFI_MAPPING), Some("mdi:access-point")))
    @@ ("wifiConnectedAP" :>
        Descriptor("Wifi accesspoint", NoneSlot, Some("mdi:access-point")))
    @@ ("infraLedState" :>
        Descriptor("Infraled", Dict(FOSCAM_INFRALED_MAPPING), Some("mdi:led-outline")))

\* for sensor_type in SENSOR_TYPES
Sensors == DOMAIN SENSOR_TYPES

----------------------------------------------------------------------------
\* What a Python call gives: a value, or a raised exception.

Return(v) == [raised |-> "", value |-> v]
Raise(exc) == [raised |-> exc, value |-> None]

\* d[k]
GetItem(d, k) == IF k \in DOMAIN d THEN Return(Some(d[k])) ELSE Raise("KeyError")

isinstance_dict(v) == v.kind = "dict"

----------------------------------------------------------------------------
\* HassFoscamSensor

\* Mutant: the handler catches TypeError alone.
state_except_TypeErrorOnly(exc) ==
    IF exc \in {"TypeError"} THEN Return(None) ELSE Raise(exc)

\* except (KeyError, TypeError): data = None
state_except(exc) ==
    IF exc \in {"KeyError", "TypeError"} THEN Return(None) ELSE Raise(exc)

\* HassFoscamSensor.__init__
HassFoscamSensor_init(sensor_type) ==
    [unit_of_measurement |-> SENSOR_TYPES[sensor_type].unit, type |-> sensor_type]

\* HassFoscamSensor.state of the sensor of this type.
state(sensor_type) ==
    LET self == entities[sensor_type]
        unit == self.unit_of_measurement
        item == GetItem(data, self.type)
    IN  IF item.raised # ""
        THEN state_except(item.raised)
        ELSE IF isinstance_dict(unit)
             THEN LET label == GetItem(unit.map, item.value[1])
                  IN  IF label.raised # ""
                      THEN state_except(label.raised)
                      ELSE Return(label.value)
             ELSE Return(item.value)

\* Mutant: the unit is returned without looking at its type.
unit_of_measurement_Unchecked(sensor_type) ==
    entities[sensor_type].unit_of_measurement

\* HassFoscamSensor.unit_of_measurement
unit_of_measurement(sensor_type) ==
    LET unit == entities[sensor_type].unit_of_measurement
    IN  IF isinstance_dict(unit) THEN NoneSlot ELSE unit

\* HassFoscamSensor.icon
icon(sensor_type) == SENSOR_TYPES[entities[sensor_type].type].icon

----------------------------------------------------------------------------
\* What an operation leaves in event.

Event(op, polled, returned, ret, response) ==
    [op |-> op, polled |-> polled, returned |-> returned, ret |-> ret,
     response |-> response]

----------------------------------------------------------------------------
\* homeassistant.util.Throttle

\* The wrapped method runs if it never ran, or ran more than min_time ago.
Throttle(min_time) ==
    \/ throttle = None
    \/ now - throttle[1] > min_time

----------------------------------------------------------------------------
\* HassFoscamData

\* Mutant: the reasons of two codes are exchanged.
reason_Exchanged(ret) ==
    IF ret = FOSCAM_ERROR_AUTH THEN "Failed authentication"
    ELSE IF ret = FOSCAM_ERROR_CMD THEN "Access deny. May the cmd is not supported."
    ELSE IF ret = FOSCAM_ERROR_EXE THEN "Invalid format"
    ELSE IF ret = FOSCAM_ERROR_FORMAT THEN "CGI execute fail"
    ELSE IF ret = FOSCAM_ERROR_TIMEOUT THEN "Timeout"
    ELSE IF ret = FOSCAM_ERROR_UNAVAILABLE THEN "Camera not available"
    ELSE "Unknown"

\* The reason logged for a result code other than FOSCAM_SUCCESS.
reason(ret) ==
    IF ret = FOSCAM_ERROR_AUTH THEN "Failed authentication"
    ELSE IF ret = FOSCAM_ERROR_CMD THEN "Access deny. May the cmd is not supported."
    ELSE IF ret = FOSCAM_ERROR_EXE THEN "CGI execute fail"
    ELSE IF ret = FOSCAM_ERROR_FORMAT THEN "Invalid format"
    ELSE IF ret = FOSCAM_ERROR_TIMEOUT THEN "Timeout"
    ELSE IF ret = FOSCAM_ERROR_UNAVAILABLE THEN "Camera not available"
    ELSE "Unknown"

\* Mutant: the method is not decorated with Throttle.
HassFoscamData_async_update_Undecorated ==
    /\ pending' = pending \cup {now}
    /\ calls' = Append(calls, now)
    /\ event' = Event("async_update", TRUE, None, 0, EmptyDict)
    /\ UNCHANGED <<now, throttle, data, log, done, entities>>

\* HassFoscamData.async_update up to its await: the throttle lets the call
\* through and get_dev_state goes to the executor, or the call is dropped.
HassFoscamData_async_update ==
    IF Throttle(SCAN_INTERVAL)
    THEN /\ throttle' = Some(now)
         /\ pending' = pending \cup {now}
         /\ calls' = Append(calls, now)
         /\ event' = Event("async_update", TRUE, None, 0, EmptyDict)
         /\ UNCHANGED <<now, data, log, done, entities>>
    ELSE /\ event' = Event("async_update", FALSE, None, 0, EmptyDict)
         /\ UNCHANGED <<now, throttle, data, pending, calls, log, done, entities>>

\* Mutant: the response is stored before the result code is looked at.
get_dev_state_returned_StoresFirst(p, ret, response) ==
    /\ p \in pending
    /\ pending' = pending \ {p}
    /\ done' = Append(done, [started |-> p, ret |-> ret, response |-> response])
    /\ data' = response
    /\ IF ret = FOSCAM_SUCCESS
       THEN /\ log' = log
            /\ event' = Event("get_dev_state", TRUE, Some(TRUE), ret, response)
       ELSE /\ log' = Append(log, [reason |-> reason(ret), response |-> response])
            /\ event' = Event("get_dev_state", TRUE, Some(FALSE), ret, response)
    /\ UNCHANGED <<now, throttle, calls, entities>>

\* Mutant: the response is merged into the held mapping (self.data.update).
get_dev_state_returned_Merges(p, ret, response) ==
    /\ p \in pending
    /\ pending' = pending \ {p}
    /\ done' = Append(done, [started |-> p, ret |-> ret, response |-> response])
    /\ IF ret = FOSCAM_SUCCESS
       THEN /\ data' = response @@ data
            /\ log' = log
            /\ event' = Event("get_dev_state", TRUE, Some(TRUE), ret, response)
       ELSE /\ data' = data
            /\ log' = Append(log, [reason |-> reason(ret), response |-> response])
            /\ event' = Event("get_dev_state", TRUE, Some(FALSE), ret, response)
    /\ UNCHANGED <<now, throttle, calls, entities>>

\* HassFoscamData.async_update from its await on: get_dev_state of the poll
\* started at p has returned (ret, response).
get_dev_state_returned(p, ret, response) ==
    /\ p \in pending
    /\ pending' = pending \ {p}
    /\ done' = Append(done, [started |-> p, ret |-> ret, response |-> response])
    /\ IF ret = FOSCAM_SUCCESS
       THEN /\ data' = response
            /\ log' = log
            /\ event' = Event("get_dev_state", TRUE, Some(TRUE), ret, response)
       ELSE /\ data' = data
            /\ log' = Append(log, [reason |-> reason(ret), response |-> response])
            /\ event' = Event("get_dev_state", TRUE, Some(FALSE), ret, response)
    /\ UNCHANGED <<now, throttle, calls, entities>>

\* Mutant: the sensor does not call the data object.
HassFoscamSensor_async_update_NoDelegation(sensor_type) ==
    /\ sensor_type \in Sensors
    /\ event' = Event("async_update", FALSE, None, 0, EmptyDict)
    /\ UNCHANGED <<now, throttle, data, pending, calls, log, done, entities>>

\* HassFoscamSensor.async_update
HassFoscamSensor_async_update(sensor_type) ==
    /\ sensor_type \in Sensors
    /\ HassFoscamData_async_update

----------------------------------------------------------------------------
\* The clock.

Tick ==
    /\ now < MaxTime
    /\ now' = now + 1
    /\ event' = Event("tick", FALSE, None, 0, EmptyDict)
    /\ UNCHANGED <<throttle, data, pending, calls, log, done, entities>>

----------------------------------------------------------------------------

\* async_setup_platform: one HassFoscamData (its __init__ leaves data empty)
\* and one sensor per sensor type on it; the clock starts at setup.
Init ==
    /\ now = 0
    /\ throttle = None
    /\ data = EmptyDict
    /\ pending = {}
    /\ calls = <<>>
    /\ log = <<>>
    /\ done = <<>>
    /\ entities = [sensor_type \in Sensors |-> HassFoscamSensor_init(sensor_type)]
    /\ event = Event("setup", FALSE, None, 0, EmptyDict)

Update == \E sensor_type \in Sensors : HassFoscamSensor_async_update(sensor_type)

\* The camera's answer to a poll.
Answers ==
    ({FOSCAM_SUCCESS} \X Responses) \cup ((RetCodes \ {FOSCAM_SUCCESS}) \X FailedResponses)

Returned ==
    \E p \in pending, answer \in Answers :
        get_dev_state_returned(p, answer[1], answer[2])

Next == Update \/ Returned \/ Tick

Spec == Init /\ [][Next]_vars

----------------------------------------------------------------------------
\* The host keeps polling and the camera is not down for ever: update() is
\* called at least once per clock tick, and at most MaxFailures polls fail.

LiveReturned ==
    \E p \in pending, answer \in Answers :
        /\ answer[1] # FOSCAM_SUCCESS => Len(log) < MaxFailures
        /\ get_dev_state_returned(p, answer[1], answer[2])

LiveTick ==
    /\ event.op = "async_update"
    /\ Tick

LiveNext == Update \/ LiveReturned \/ LiveTick

LiveSpec ==
    /\ Init
    /\ [][LiveNext]_vars
    /\ WF_vars(Update)
    /\ WF_vars(LiveReturned)
    /\ WF_vars(LiveTick)

----------------------------------------------------------------------------
\* Vocabulary of the properties.

Last(seq) == seq[Len(seq)]

Succeeded(poll) == poll.ret = FOSCAM_SUCCESS

\* The step is the return of a poll.
PollReturns == Len(done') = Len(done) + 1

\* The step is a call of update().
UpdateCalled == event'.op = "async_update"

\* One minute, in clock ticks.
OneMinute == TicksPerMinute

\* The value a sensor is to report on a device state.
Translated(device_state, sensor_type) ==
    LET table == SENSOR_TYPES[sensor_type].unit
    IN  IF sensor_type \notin DOMAIN device_state THEN None
        ELSE IF table.kind # "dict" THEN Some(device_state[sensor_type])
        ELSE IF device_state[sensor_type] \in DOMAIN table.map
             THEN Some(table.map[device_state[sensor_type]])
             ELSE None

\* The documented reason of each result code.
DocumentedReason(ret) ==
    CASE ret = 0 - 2 -> "Failed authentication"
      [] ret = 0 - 3 -> "Access deny. May the cmd is not supported."
      [] ret = 0 - 4 -> "CGI execute fail"
      [] ret = 0 - 1 -> "Invalid format"
      [] ret = 0 - 5 -> "Timeout"
      [] ret = 0 - 8 -> "Camera not available"
      [] OTHER -> "Unknown"

----------------------------------------------------------------------------
\* C1: whichever sensors call update(), any two get_dev_state calls of the
\* camera client are at least one minute apart, a failed poll opening an
\* interval as a successful one does.
C1_OncePerInterval ==
    \A i, j \in 1..Len(calls) : i < j => calls[j] - calls[i] >= OneMinute

\* Two polls were made, the first one failed, and a call is being dropped.
C1_Witness ==
    /\ Len(calls) = 2
    /\ Len(done) >= 1
    /\ ~Succeeded(done[1])
    /\ event.op = "async_update"
    /\ ~event.polled

\* C2: a poll that returns a code other than success leaves the device state
\* as it was, makes update() return False, and changes no sensor's value.
C2_FailureKeepsState ==
    [][PollReturns /\ ~Succeeded(Last(done'))
        => /\ data' = data
           /\ event'.returned = Some(FALSE)
           /\ \A s \in Sensors : state(s)' = state(s)]_vars

\* A poll failed with a non-empty response while older data was held.
C2_Witness ==
    /\ event.op = "get_dev_state"
    /\ event.ret # FOSCAM_SUCCESS
    /\ event.response # EmptyDict
    /\ data # EmptyDict
    /\ data # event.response

\* C3: a successful poll replaces the device state by the returned mapping,
\* makes update() return True, and every sensor reports its field of the new
\* mapping, translated where it has a table; a field no longer returned is
\* reported absent.
C3_SuccessReplacesState ==
    [][PollReturns /\ Succeeded(Last(done'))
        => LET response == Last(done').response
           IN  /\ data' = response
               /\ event'.returned = Some(TRUE)
               /\ \A s \in Sensors : state(s)' = Return(Translated(response, s))
               /\ \A s \in Sensors :
                    s \in DOMAIN data /\ s \notin DOMAIN response
                        => state(s)' = Return(None)
               /\ response = ("motionDetectAlarm" :> "1") @@ ("sdFreeSpace" :> "1024")
                    => /\ state("motionDetectAlarm")' = Return(Some("No alarm"))
                       /\ state("sdFreeSpace")' = Return(Some("1024"))]_vars

\* A successful poll has returned fewer fields than the one before it.
C3_Witness ==
    /\ Len(done) >= 2
    /\ Succeeded(done[1])
    /\ Succeeded(Last(done))
    /\ event.op = "get_dev_state"
    /\ \E s \in DOMAIN done[1].response : s \notin DOMAIN data

\* C4: the error log holds one entry per failed poll and none for a
\* successful one, and the reason of each entry is the documented reason of
\* the poll's result code.
C4_ReasonPerCode ==
    LET failed == SelectSeq(done, LAMBDA poll : ~Succeeded(poll))
    IN  /\ Len(log) = Len(failed)
        /\ \A i \in 1..Len(failed) :
            /\ log[i].reason = DocumentedReason(failed[i].ret)
            /\ log[i].response = failed[i].response

\* An unrecognized code and a recognized one were logged, and a poll succeeded.
C4_Witness ==
    /\ Len(log) = 2
    /\ log[1].reason = "Unknown"
    /\ log[2].reason = "CGI execute fail"
    /\ Len(done) = 3

\* C5: reading a sensor's value never raises; it is None when the field is
\* not in the device state, and when the sensor has a translation table of
\* which the raw value is no key.
C5_StateNeverRaises ==
    \A s \in Sensors :
        LET table == SENSOR_TYPES[s].unit
        IN  /\ state(s).raised = ""
            /\ s \notin DOMAIN data => state(s).value = None
            /\ s \in DOMAIN data /\ table.kind = "dict" /\ data[s] \notin DOMAIN table.map
                => state(s).value = None

\* The device state holds a raw value that is no key of the sensor's table,
\* and lacks another sensor's field.
C5_Witness ==
    /\ "motionDetectAlarm" \in DOMAIN data
    /\ data["motionDetectAlarm"] = "1024"
    /\ "sdFreeSpace" \notin DOMAIN data

\* C6: as long as no poll has succeeded the device state is the empty mapping
\* and every sensor's value is None.
C6_EmptyUntilSuccess ==
    (\A i \in 1..Len(done) : ~Succeeded(done[i]))
        => /\ data = EmptyDict
           /\ \A s \in Sensors : state(s) = Return(None)

\* A poll has failed with a non-empty response, and a later call was dropped.
C6_Witness ==
    /\ Len(done) = 1
    /\ ~Succeeded(done[1])
    /\ done[1].response # EmptyDict
    /\ event.op = "async_update"
    /\ ~event.polled

\* C7: an update() call made no more than a minute after the last poll was
\* started calls no get_dev_state, logs nothing and leaves the device state
\* and every sensor's value as they were.
C7_ThrottledIsNoOp ==
    [][UpdateCalled /\ calls # <<>> /\ now - Last(calls) <= OneMinute
        => /\ calls' = calls
           /\ pending' = pending
           /\ log' = log
           /\ data' = data
           /\ \A s \in Sensors : state(s)' = state(s)]_vars

\* A call was dropped exactly one minute after a poll that had succeeded.
C7_Witness ==
    /\ event.op = "async_update"
    /\ ~event.polled
    /\ calls # <<>>
    /\ now - Last(calls) = OneMinute
    /\ data # EmptyDict

\* C8: a sensor's unit of measurement is None when the second slot of its
\* descriptor is a translation table and is that slot otherwise, whatever the
\* device state.
C8_UnitOfMeasurement ==
    \A s \in Sensors :
        unit_of_measurement(s) =
            IF SENSOR_TYPES[s].unit.kind = "dict" THEN NoneSlot ELSE SENSOR_TYPES[s].unit

\* Units are read while the device state holds data.
C8_Witness ==
    /\ data # EmptyDict
    /\ unit_of_measurement("motionDetectAlarm") = NoneSlot
    /\ unit_of_measurement("sdFreeSpace") = NoneSlot

\* C9: the first update() call, and every one made more than a minute after
\* the last poll was started, calls get_dev_state; and with the host polling
\* and the camera answering in the end, the device state comes to hold the
\* response of a successful poll.
C9_ThrottleNeverBlocks ==
    /\ [][UpdateCalled /\ (calls = <<>> \/ now - Last(calls) > OneMinute)
            => /\ calls' = Append(calls, now)
               /\ now \in pending']_vars
    /\ <>(\E i \in 1..Len(done) : Succeeded(done[i]) /\ data = done[i].response)

\* A poll failed, and the poll made after the interval brought fresh data.
C9_Witness ==
    /\ Len(done) = 2
    /\ ~Succeeded(done[1])
    /\ Succeeded(done[2])
    /\ done[2].started > done[1].started + OneMinute
    /\ data = done[2].response
    /\ data # EmptyDict

\* C10, as claimed: the device state is the response of the most recently
\* started successful poll among those that have returned.
C10_NewestStartedWins ==
    \A i \in 1..Len(done) :
        /\ Succeeded(done[i])
        /\ \A j \in 1..Len(done) : Succeeded(done[j]) => done[j].started <= done[i].started
        => data = done[i].response

\* C10, amended: the device state is the response of the successful poll that
\* returned last, whenever that poll was started.
C10_LastReturnedWins ==
    \A i \in 1..Len(done) :
        /\ Succeeded(done[i])
        /\ \A j \in (i + 1)..Len(done) : ~Succeeded(done[j])
        => data = done[i].response

\* Two polls overlapped and the older one returned last, with another response.
C10_Witness ==
    /\ Len(done) = 2
    /\ Succeeded(done[1])
    /\ Succeeded(done[2])
    /\ done[2].started < done[1].started
    /\ done[1].response # done[2].response
    /\ data = done[2].response

====
